---- MODULE Spec2Model ----
(***************************************************************************)
(* A model of instaudio_crawler.py: the two identifier generators, the     *)
(* probe (extract_metadata), the batch loop of main() around a             *)
(* ThreadPoolExecutor, the CSV sink (save_results) and the                 *)
(* KeyboardInterrupt handler of the __main__ block.                        *)
(*                                                                         *)
(* Scaling.  The source enumerates a 36-symbol alphabet with batches of    *)
(* 500 on 15 threads.  The model keeps the code lengths (3 and 4) and the  *)
(* first characters '123' of the source and scales the alphabet to its     *)
(* first Base symbols, the batch size to at most MaxBatch and the pool to  *)
(* at most MaxThreads workers.  Every literal 36 of the source is Base.    *)
(***************************************************************************)
EXTENDS Integers, Sequences, FiniteSets, Bags, TLC

\* ------------------------------------------------------------ bounds
\* Size of the alphabet (len(CHARS), and the literal 36 of lines 115-123).
Base == 4
\* Largest BATCH_SIZE a run is configured with.
MaxBatch == 3
\* Largest THREADS a run is configured with.
MaxThreads == 2
\* How many times the program is started against the same output file.
MaxRuns == 2
\* A stopped run is started again while the file holds at most this many rows.
MaxResumeRows == 6
\* The durations of SpecDuration run from 0 to this many seconds.
MaxSeconds == 3725

\* The behaviours of the remote host a run may face (see Respond).
Profiles == {0, 1}

\* ------------------------------------------------- program constants
\* product(CHARS, repeat=3)
ShortLen == 3
\* for _ in range(4)
LongLen == 4

\* CHARS of the source (line 35).
Alphabet == "0123456789abcdefghijklmnopqrstuvwxyz"

\* CHARS, cut to its first Base symbols.
CHARS == SubSeq(Alphabet, 1, Base)

\* CHARS[i], i counted from 0.
Char(i) == SubSeq(CHARS, i + 1, i + 1)

\* CHARS.index(c)
CharIndex(c) == (CHOOSE i \in 1..Len(CHARS) : SubSeq(CHARS, i, i) = c) - 1

BASE_URL == "https://instaud.io/"

\* f"{BASE_URL}{code}"
code_to_url(code) == BASE_URL \o code

\* url.split('/')[-1]: what follows the last slash.
LastSegment(url) ==
  LET slashes == {i \in 1..Len(url) : SubSeq(url, i, i) = "/"}
  IN  IF slashes = {} THEN url
      ELSE SubSeq(url, (CHOOSE i \in slashes : \A j \in slashes : j <= i) + 1,
                  Len(url))

\* ------------------------------------------------------- generators
\* itertools.product(CHARS, repeat=3) as an odometer over 0-based positions
\* in CHARS; <<>> once the product is exhausted.
ProductFirst == [i \in 1..ShortLen |-> 0]

RECURSIVE ProductCarry(_, _)
ProductCarry(t, i) ==
  IF i = 0 THEN << >>
  ELSE IF t[i] < Len(CHARS) - 1 THEN [t EXCEPT ![i] = t[i] + 1]
  ELSE ProductCarry([t EXCEPT ![i] = 0], i - 1)

ProductNext(t) == ProductCarry(t, Len(t))

SkipPlaceholderNever(code) == FALSE

\* if code == "000": continue
SkipPlaceholder(code) == code = "000"

\* One iteration of the loop of generate_3digit_codes, t being the next
\* tuple of the product: the generator yields, skips, or ends.
Gen3Step(t) ==
  IF t = << >> THEN [kind |-> "stop", code |-> "", t |-> << >>]
  ELSE LET code == Char(t[1]) \o Char(t[2]) \o Char(t[3])
       IN  [kind |-> IF SkipPlaceholder(code) THEN "skip" ELSE "yield",
            code |-> code, t |-> ProductNext(t)]

\* for first in '123'
Firsts == "123"

First(fi) == SubSeq(Firsts, fi, fi)

\* if first == '1': start = 0 else: start = CHARS.index(first) * 36**3
RangeStart(first) ==
  IF first = "1" THEN 0 ELSE CharIndex(first) * Base ^ 3

\* The four-iteration loop of lines 119-123: num in base 36, low digit first.
RECURSIVE Encode(_, _, _)
Encode(code, n, left) ==
  IF left = 0 THEN code
  ELSE Encode(Char(n % Base) \o code, n \div Base, left - 1)

\* One iteration of generate_4digit_codes at the fi-th first character, num
\* being the next value of its range: the generator yields a code, skips
\* (the code does not start with first, or the range of first is used up and
\* the next first is taken), or ends.
Gen4Step(fi, num) ==
  IF fi > Len(Firsts) THEN [kind |-> "stop", code |-> "", fi |-> fi, num |-> 0]
  ELSE LET first == First(fi)
           next  == IF fi < Len(Firsts) THEN RangeStart(First(fi + 1)) ELSE 0
           code  == Encode("", num, LongLen)
       IN  IF \/ num >= RangeStart(first) + Base ^ 3
              \/ first = "3" /\ num >= Base ^ 4
           THEN [kind |-> "skip", code |-> "", fi |-> fi + 1, num |-> next]
           ELSE [kind |-> IF code # "" /\ Head(code) = first THEN "yield"
                          ELSE "skip",
                 code |-> code, fi |-> fi, num |-> num + 1]

\* ------------------------------------------------------------ probe
\* Numeric value of a code read in base Base.
RECURSIVE Value(_)
Value(code) ==
  IF code = "" THEN 0
  ELSE Value(SubSeq(code, 1, Len(code) - 1)) * Base
         + CharIndex(SubSeq(code, Len(code), Len(code)))

\* What the remote host does with a request for url, under behaviour profile:
\* "ok" (HEAD and GET answer 200), "http" (a non-200 status), "exc" (requests
\* raises: timeout, connection failure).
Respond(profile, url) ==
  LET k == (Value(LastSegment(url)) + profile) % 3
  IN  IF k = 0 THEN "ok" ELSE IF k = 1 THEN "http" ELSE "exc"

\* extract_metadata(url): the dict it returns.
extract_metadata(profile, url) ==
  LET answer == Respond(profile, url)
  IN  IF answer = "http" THEN [url |-> url, status |-> "404"]
      ELSE IF answer = "ok"
      THEN [url |-> url, code |-> LastSegment(url), title |-> "Unknown",
            status |-> "200"]
      ELSE [url |-> url, status |-> "ERROR", error |-> "timeout"]

\* --------------------------------------------------------- durations
\* The decimal digits, as str() and float() write and read them.
Digits == "0123456789"

DigitChar(d) == SubSeq(Digits, d + 1, d + 1)

IsDigit(c) == \E d \in 0..9 : DigitChar(d) = c

DigitValue(c) == CHOOSE d \in 0..9 : DigitChar(d) = c

\* The decimal numeral of a non-negative integer.
RECURSIVE Decimal(_)
Decimal(x) ==
  IF x < 10 THEN DigitChar(x) ELSE Decimal(x \div 10) \o DigitChar(x % 10)

\* f"{x:02d}": the numeral, padded with a zero to two characters.
Format02d(x) == IF x < 10 THEN "0" \o Decimal(x) ELSE Decimal(x)

duration_fmt_minutes_of_hour(duration_sec) ==
  IF duration_sec # 0
  THEN Format02d((duration_sec \div 60) % 60) \o ":"
         \o Format02d(duration_sec % 60)
  ELSE "?:??"

\* duration_fmt of line 75.
duration_fmt(duration_sec) ==
  IF duration_sec # 0
  THEN Format02d(duration_sec \div 60) \o ":" \o Format02d(duration_sec % 60)
  ELSE "?:??"

\* text.strip(), for the blanks a text can carry at its ends.
RECURSIVE Strip(_)
Strip(text) ==
  IF text = "" THEN text
  ELSE IF SubSeq(text, 1, 1) = " " THEN Strip(SubSeq(text, 2, Len(text)))
  ELSE IF SubSeq(text, Len(text), Len(text)) = " "
  THEN Strip(SubSeq(text, 1, Len(text) - 1))
  ELSE text

\* The positions of text that hold a colon.
ColonsIn(text) == {i \in 1..Len(text) : SubSeq(text, i, i) = ":"}

\* text.split(':')
RECURSIVE SplitColon(_)
SplitColon(text) ==
  IF ColonsIn(text) = {} THEN << text >>
  ELSE LET i == CHOOSE c \in ColonsIn(text) : \A o \in ColonsIn(text) : c <= o
       IN  << SubSeq(text, 1, i - 1) >>
             \o SplitColon(SubSeq(text, i + 1, Len(text)))

\* The number a numeral of digits stands for.
RECURSIVE NumeralValue(_)
NumeralValue(part) ==
  IF part = "" THEN 0
  ELSE 10 * NumeralValue(SubSeq(part, 1, Len(part) - 1))
         + DigitValue(SubSeq(part, Len(part), Len(part)))

\* float(part): the value of an unsigned whole numeral; ok is false where
\* float raises ValueError (an empty part, a character that is no digit).
\* Signs, fractions and exponents, which float also reads, are left out: no
\* text of the model carries them.
Float(part) ==
  LET body == Strip(part)
  IN  IF body # "" /\ \A i \in 1..Len(body) : IsDigit(SubSeq(body, i, i))
      THEN [ok |-> TRUE, value |-> NumeralValue(body)]
      ELSE [ok |-> FALSE, value |-> 0]

\* parse_duration(text): seconds, or 0 where the code returns 0 (no text, no
\* colon, a part float rejects, a number of parts that cannot be unpacked).
parse_duration(text) ==
  IF text = "" \/ ColonsIn(text) = {} THEN 0
  ELSE LET parts == SplitColon(Strip(text))
           num == [k \in 1..Len(parts) |-> Float(parts[k])]
       IN  IF \E k \in 1..Len(parts) : ~num[k].ok THEN 0
           ELSE IF Len(parts) = 3
           THEN num[1].value * 3600 + num[2].value * 60 + num[3].value
           ELSE IF Len(parts) = 2
           THEN num[1].value * 60 + num[2].value
           ELSE 0

\* ------------------------------------------------------------- sink
\* The columns of the CSV the model keeps (duration, listens and downloads
\* are page content and carried by no claim).
fieldnames == {"url", "code", "title", "status", "error"}

\* row.setdefault("error", "") and DictWriter's restval "" for a missing key.
Row(result) ==
  [k \in fieldnames |-> IF k \in DOMAIN result THEN result[k] ELSE ""]

\* writer.writerow(row) for each result: the rows written, with their counts.
RowsOf(results) ==
  LET at == 1..Len(results)
  IN  [row \in {Row(results[k]) : k \in at} |->
         Cardinality({k \in at : Row(results[k]) = row})]

\* OUTPUT_FILE: absent, or its header lines, what its first line is, and the
\* bag of its data rows.
NoFile == [exists |-> FALSE, headers |-> 0, first |-> "none", rows |-> EmptyBag]

save_results_header_each(f, results, append) ==
  LET mode == IF append /\ f.exists THEN "a" ELSE "w"
      open == IF mode = "w"
              THEN [exists |-> TRUE, headers |-> 1, first |-> "header",
                    rows |-> EmptyBag]
              ELSE [f EXCEPT !.headers = @ + 1]
  IN  [open EXCEPT !.rows = @ (+) RowsOf(results),
                   !.first = IF @ = "none" /\ results # << >> THEN "row" ELSE @]

\* save_results(results, append): the file after the call.
save_results(f, results, append) ==
  LET mode == IF append /\ f.exists THEN "a" ELSE "w"
      open == IF mode = "w"
              THEN [exists |-> TRUE, headers |-> 1, first |-> "header",
                    rows |-> EmptyBag]
              ELSE f
  IN  [open EXCEPT !.rows = @ (+) RowsOf(results),
                   !.first = IF @ = "none" /\ results # << >> THEN "row" ELSE @]

\* ------------------------------------------------------------ state
VARIABLES
  BATCH_SIZE,      \* configuration (lines 25-27)
  THREADS,
  INCLUDE_3DIGIT,
  remote,          \* behaviour profile of the remote host
  pc,              \* where the main thread is
  exit_code,       \* the process exit code, -1 while it runs
  total_found,     \* locals of main()
  batch_results,
  gi,              \* position in the list generators
  gen,             \* state of the generator being iterated
  urls_batch,
  batch_count,
  pending,         \* urls of the batch not yet handed to extract_metadata
  running,         \* urls whose extract_metadata call is in flight
  finished,        \* results of completed futures not yet yielded
  file,            \* OUTPUT_FILE
  emitted,         \* per generator, the codes it has yielded
  saves,           \* per generator, the save_results calls made in its scan
  run,             \* how many times the program was started
  probed,          \* this run's urls passed to extract_metadata, in call order
  dur              \* a duration being formatted and parsed back (SpecDuration)

vars ==
  << BATCH_SIZE, THREADS, INCLUDE_3DIGIT, remote, pc, exit_code, total_found,
     batch_results, gi, gen, urls_batch, batch_count, pending, running,
     finished, file, emitted, saves, run, probed, dur >>

config == << BATCH_SIZE, THREADS, INCLUDE_3DIGIT, remote >>

\* generators (lines 148-151), by name.
generators ==
  IF INCLUDE_3DIGIT THEN << "3-digit", "4-digit" >> ELSE << "4-digit" >>

\* A generator object before its first next().
GenStart(name) ==
  [name |-> name, t |-> ProductFirst, fi |-> 1, num |-> RangeStart(First(1))]

\* One iteration of the generator's loop.
GenStep(g) ==
  IF g.name = "3-digit"
  THEN LET r == Gen3Step(g.t)
       IN  [kind |-> r.kind, code |-> r.code, gen |-> [g EXCEPT !.t = r.t]]
  ELSE LET r == Gen4Step(g.fi, g.num)
       IN  [kind |-> r.kind, code |-> r.code,
            gen |-> [g EXCEPT !.fi = r.fi, !.num = r.num]]

\* The process as main() reaches its first `for code in gen` (lines 145-158).
MainStart(include) ==
  LET names == IF include THEN << "3-digit", "4-digit" >> ELSE << "4-digit" >>
  IN  [pc |-> "loop", total_found |-> 0, batch_results |-> << >>,
       gen |-> GenStart(names[1]), urls_batch |-> << >>,
       emitted |-> [i \in 1..Len(names) |-> << >>],
       saves |-> [i \in 1..Len(names) |-> 0]]

\* No duration is being converted.
DurIdle == [pc |-> "idle", n |-> 0, text |-> "", parsed |-> 0]

\* A fresh process on a host without OUTPUT_FILE.
ProcessStart ==
  /\ file = NoFile
  /\ run = 1
  /\ exit_code = -1
  /\ gi = 1
  /\ batch_count = 0
  /\ pending = << >>
  /\ running = {}
  /\ finished = {}
  /\ probed = << >>
  /\ LET m == MainStart(INCLUDE_3DIGIT)
     IN  /\ pc = m.pc
         /\ total_found = m.total_found
         /\ batch_results = m.batch_results
         /\ gen = m.gen
         /\ urls_batch = m.urls_batch
         /\ emitted = m.emitted
         /\ saves = m.saves

\* A BATCH_SIZE larger than everything the generators emit: each scan is one
\* final partial batch.
WholeRun == Base ^ LongLen

Init ==
  /\ BATCH_SIZE \in (1..MaxBatch) \cup {WholeRun}
  /\ THREADS \in 1..MaxThreads
  /\ INCLUDE_3DIGIT \in BOOLEAN
  /\ remote \in Profiles
  /\ dur = DurIdle
  /\ ProcessStart

\* ---------------------------------------------------------- actions
FullBatchOverfull(urls, size) == Len(urls) > size

\* if len(urls_batch) >= BATCH_SIZE (line 162)
FullBatch(urls, size) == Len(urls) >= size

\* for code in gen: the generator yields a code; urls_batch.append(url); a
\* full batch is counted and submitted to a fresh executor (lines 158-167).
ForCode ==
  /\ pc = "loop"
  /\ LET r == GenStep(gen)
     IN  /\ r.kind = "yield"
         /\ gen' = r.gen
         /\ emitted' = [emitted EXCEPT ![gi] = Append(@, r.code)]
         /\ urls_batch' = Append(urls_batch, code_to_url(r.code))
         /\ IF FullBatch(urls_batch', BATCH_SIZE)
            THEN /\ batch_count' = batch_count + 1
                 /\ pending' = urls_batch'
                 /\ pc' = "pool"
            ELSE /\ UNCHANGED << batch_count, pending >>
                 /\ pc' = "loop"
  /\ UNCHANGED << config, exit_code, total_found, batch_results, gi, running,
                  finished, file, saves, run, probed, dur >>

\* The generator's loop goes round without a yield (continue, a code that
\* does not start with first, the end of one first's range).
GenSkip ==
  /\ pc = "loop"
  /\ LET r == GenStep(gen)
     IN  /\ r.kind = "skip"
         /\ gen' = r.gen
  /\ UNCHANGED << config, pc, exit_code, total_found, batch_results, gi,
                  urls_batch, batch_count, pending, running, finished, file,
                  emitted, saves, run, probed, dur >>

\* The generator ends: the for loop of line 158 is left.
Exhausted ==
  /\ pc = "loop"
  /\ LET r == GenStep(gen)
     IN  /\ r.kind = "stop"
         /\ gen' = r.gen
  /\ pc' = "tail"
  /\ UNCHANGED << config, exit_code, total_found, batch_results, gi, urls_batch,
                  batch_count, pending, running, finished, file, emitted, saves,
                  run, probed, dur >>

IdleWorkerAlways(busy, limit) == TRUE

\* ThreadPoolExecutor(max_workers=THREADS): a worker is free to take a work item.
IdleWorker(busy, limit) == Cardinality(busy) < limit

\* A pool worker takes the next work item and enters extract_metadata. Workers
\* keep draining the queue while __exit__ waits for them (shutdown(wait=True)).
WorkerStart ==
  /\ pc \in {"pool", "unwind"}
  /\ pending # << >>
  /\ IdleWorker(running, THREADS)
  /\ running' = running \cup {Head(pending)}
  /\ pending' = Tail(pending)
  /\ probed' = Append(probed, Head(pending))
  /\ UNCHANGED << config, pc, exit_code, total_found, batch_results, gi, gen,
                  urls_batch, batch_count, finished, file, emitted, saves,
                  run, dur >>

\* A pool worker returns from extract_metadata: its future is done.
WorkerFinish ==
  /\ pc \in {"pool", "unwind"}
  /\ \E u \in running :
       /\ running' = running \ {u}
       /\ finished' = finished \cup {extract_metadata(remote, u)}
  /\ UNCHANGED << config, pc, exit_code, total_found, batch_results, gi, gen,
                  urls_batch, batch_count, pending, file, emitted, saves,
                  run, probed, dur >>

CollectFoundOnly ==
  /\ pc = "pool"
  /\ \E result \in finished :
       /\ finished' = finished \ {result}
       /\ total_found' = IF result.status = "200" THEN total_found + 1
                         ELSE total_found
       /\ batch_results' = IF result.status = "200"
                           THEN Append(batch_results, result)
                           ELSE batch_results
  /\ UNCHANGED << config, pc, exit_code, gi, gen, urls_batch, batch_count,
                  pending, running, file, emitted, saves, run, probed, dur >>

\* for future in as_completed(futures): count and append (lines 168-175).
Collect ==
  /\ pc = "pool"
  /\ \E result \in finished :
       /\ finished' = finished \ {result}
       /\ total_found' = IF result.status = "200" THEN total_found + 1
                         ELSE total_found
       /\ batch_results' = Append(batch_results, result)
  /\ UNCHANGED << config, pc, exit_code, gi, gen, urls_batch, batch_count,
                  pending, running, file, emitted, saves, run, probed, dur >>

PoolDoneNoWait ==
  /\ pc = "pool"
  /\ finished = {}
  /\ pc' = "save"
  /\ UNCHANGED << config, exit_code, total_found, batch_results, gi, gen,
                  urls_batch, batch_count, pending, running, finished, file,
                  emitted, saves, run, probed, dur >>

\* as_completed is exhausted and the with block is left (line 175 to 177).
PoolDone ==
  /\ pc = "pool"
  /\ pending = << >> /\ running = {} /\ finished = {}
  /\ pc' = "save"
  /\ UNCHANGED << config, exit_code, total_found, batch_results, gi, gen,
                  urls_batch, batch_count, pending, running, finished, file,
                  emitted, saves, run, probed, dur >>

SaveBatchKeepsUrls ==
  /\ pc = "save"
  /\ file' = save_results(file, batch_results, TRUE)
  /\ saves' = [saves EXCEPT ![gi] = @ + 1]
  /\ batch_results' = << >>
  /\ pc' = "loop"
  /\ UNCHANGED << config, exit_code, total_found, gi, gen, urls_batch,
                  batch_count, pending, running, finished, emitted, run,
                  probed, dur >>

\* save_results(batch_results); batch_results.clear(); urls_batch.clear()
\* (lines 178-181).
SaveBatch ==
  /\ pc = "save"
  /\ file' = save_results(file, batch_results, TRUE)
  /\ saves' = [saves EXCEPT ![gi] = @ + 1]
  /\ batch_results' = << >>
  /\ urls_batch' = << >>
  /\ pc' = "loop"
  /\ UNCHANGED << config, exit_code, total_found, gi, gen, batch_count, pending,
                  running, finished, emitted, run, probed, dur >>

\* if urls_batch: the final batch is probed by the main thread itself, one
\* url after the other (lines 184-188).
FinalBegin ==
  /\ pc = "tail"
  /\ urls_batch # << >>
  /\ pending' = urls_batch
  /\ pc' = "final"
  /\ UNCHANGED << config, exit_code, total_found, batch_results, gi, gen,
                  urls_batch, batch_count, running, finished, file, emitted,
                  saves, run, probed, dur >>

FinalStart ==
  /\ pc = "final"
  /\ pending # << >> /\ running = {}
  /\ running' = {Head(pending)}
  /\ pending' = Tail(pending)
  /\ probed' = Append(probed, Head(pending))
  /\ UNCHANGED << config, pc, exit_code, total_found, batch_results, gi, gen,
                  urls_batch, batch_count, finished, file, emitted, saves,
                  run, dur >>

\* batch_results.append(extract_metadata(url)) (line 188); after the last url
\* the with block is left.
FinalFinish ==
  /\ pc = "final"
  /\ \E u \in running :
       /\ running' = {}
       /\ batch_results' = Append(batch_results, extract_metadata(remote, u))
  /\ pc' = IF pending = << >> THEN "finalsave" ELSE "final"
  /\ UNCHANGED << config, exit_code, total_found, gi, gen, urls_batch,
                  batch_count, pending, finished, file, emitted, saves,
                  run, probed, dur >>

\* main() returns and the interpreter ends with status 0 (line 202).
CompletedExitCode == 0

\* The next (name, gen) of line 153, or the end of main() and of the process.
NextScan ==
  IF gi < Len(generators)
  THEN /\ gi' = gi + 1
       /\ gen' = GenStart(generators[gi + 1])
       /\ batch_count' = 0
       /\ urls_batch' = << >>
       /\ pc' = "loop"
       /\ exit_code' = exit_code
  ELSE /\ pc' = "done"
       /\ exit_code' = CompletedExitCode
       /\ UNCHANGED << gi, gen, batch_count, urls_batch >>

\* len([r for r in batch_results if r["status"] == 200]) (line 190)
Good(results) ==
  Cardinality({i \in 1..Len(results) : results[i].status = "200"})

\* save_results(batch_results); total_found += good (lines 189-192).
FinalSave ==
  /\ pc = "finalsave"
  /\ file' = save_results(file, batch_results, TRUE)
  /\ saves' = [saves EXCEPT ![gi] = @ + 1]
  /\ total_found' = total_found + Good(batch_results)
  /\ NextScan
  /\ UNCHANGED << config, batch_results, pending, running, finished, emitted,
                  run, probed, dur >>

NoFinalAlways ==
  /\ pc = "tail"
  /\ NextScan
  /\ UNCHANGED << config, total_found, batch_results, pending, running,
                  finished, file, emitted, saves, run, probed, dur >>

\* if urls_batch: is false (line 184): no final batch.
NoFinal ==
  /\ pc = "tail"
  /\ urls_batch = << >>
  /\ NextScan
  /\ UNCHANGED << config, total_found, batch_results, pending, running,
                  finished, file, emitted, saves, run, probed, dur >>

SaveFailsSwallowed ==
  /\ pc = "save"
  /\ pc' = "loop"
  /\ batch_results' = << >>
  /\ urls_batch' = << >>
  /\ UNCHANGED << config, exit_code, total_found, gi, gen, batch_count, pending,
                  running, finished, file, emitted, saves, run, probed, dur >>

\* open(OUTPUT_FILE, mode) raises (permissions, disk full) before a row is
\* written: the exception leaves main() and is not caught by the __main__
\* block, so the interpreter ends with status 1.
SaveFails ==
  /\ pc \in {"save", "finalsave"}
  /\ pc' = "crashed"
  /\ exit_code' = 1
  /\ UNCHANGED << config, total_found, batch_results, gi, gen, urls_batch,
                  batch_count, pending, running, finished, file, emitted, saves,
                  run, probed, dur >>

\* KeyboardInterrupt is raised in the main thread. Inside the with block of
\* line 166 the executor's __exit__ first waits for its workers; in the final
\* batch the main thread's own probe is abandoned.
Interrupt ==
  /\ pc \in {"loop", "pool", "save", "tail", "final", "finalsave"}
  /\ pc' = IF pc = "pool" THEN "unwind" ELSE "handler"
  /\ running' = IF pc = "final" THEN {} ELSE running
  /\ UNCHANGED << config, exit_code, total_found, batch_results, gi, gen,
                  urls_batch, batch_count, pending, finished, file, emitted,
                  saves, run, probed, dur >>

\* shutdown(wait=True) returns: every work item has run; the exception
\* reaches the __main__ block (line 203).
UnwindDone ==
  /\ pc = "unwind"
  /\ pending = << >> /\ running = {}
  /\ pc' = "handler"
  /\ UNCHANGED << config, exit_code, total_found, batch_results, gi, gen,
                  urls_batch, batch_count, pending, running, finished, file,
                  emitted, saves, run, probed, dur >>

HandlerExitCodeDistinct == 128 + 2

\* sys.exit(0) (line 205)
HandlerExitCode == 0

\* except KeyboardInterrupt: print(...); sys.exit(0) (lines 203-205). The
\* locals of main() keep the values they had when the process exited.
Handler ==
  /\ pc = "handler"
  /\ pc' = "stopped"
  /\ exit_code' = HandlerExitCode
  /\ UNCHANGED << config, total_found, batch_results, gi, gen, urls_batch,
                  batch_count, pending, running, finished, file, emitted, saves,
                  run, probed, dur >>

Next ==
  \/ ForCode \/ GenSkip \/ Exhausted
  \/ WorkerStart \/ WorkerFinish \/ Collect \/ PoolDone \/ SaveBatch
  \/ FinalBegin \/ FinalStart \/ FinalFinish \/ FinalSave \/ NoFinal
  \/ SaveFails \/ Interrupt \/ UnwindDone \/ Handler

Spec == Init /\ [][Next]_vars

\* The operator runs the program again after stopping it: a new process, the
\* same OUTPUT_FILE.
Restart ==
  /\ pc = "stopped"
  /\ run < MaxRuns
  /\ BagCardinality(file.rows) <= MaxResumeRows
  /\ run' = run + 1
  /\ exit_code' = -1
  /\ gi' = 1
  /\ batch_count' = 0
  /\ pending' = << >>
  /\ running' = {}
  /\ finished' = {}
  /\ probed' = << >>
  /\ LET m == MainStart(INCLUDE_3DIGIT)
     IN  /\ pc' = m.pc
         /\ total_found' = m.total_found
         /\ batch_results' = m.batch_results
         /\ gen' = m.gen
         /\ urls_batch' = m.urls_batch
         /\ emitted' = m.emitted
         /\ saves' = m.saves
  /\ UNCHANGED << config, file, dur >>

NextResume == Next \/ Restart

SpecResume == Init /\ [][NextResume]_vars

\* --------------------------------------------- the duration round trip
\* The durations tried, in seconds.
DurationInit ==
  /\ BATCH_SIZE = 1
  /\ THREADS = 1
  /\ INCLUDE_3DIGIT = FALSE
  /\ remote = 0
  /\ dur \in {[pc |-> "chosen", n |-> n, text |-> "", parsed |-> 0] :
                n \in 0..MaxSeconds}
  /\ ProcessStart

\* extract_metadata formats the seconds it found (line 75).
FormatDuration ==
  /\ dur.pc = "chosen"
  /\ dur' = [dur EXCEPT !.pc = "formatted", !.text = duration_fmt(dur.n)]
  /\ UNCHANGED << config, pc, exit_code, total_found, batch_results, gi, gen,
                  urls_batch, batch_count, pending, running, finished, file,
                  emitted, saves, run, probed >>

\* The formatted text is read back by parse_duration.
ParseDuration ==
  /\ dur.pc = "formatted"
  /\ dur' = [dur EXCEPT !.pc = "parsed", !.parsed = parse_duration(dur.text)]
  /\ UNCHANGED << config, pc, exit_code, total_found, batch_results, gi, gen,
                  urls_batch, batch_count, pending, running, finished, file,
                  emitted, saves, run, probed >>

NextDuration == FormatDuration \/ ParseDuration

SpecDuration == DurationInit /\ [][NextDuration]_vars

\* ------------------------------------------------------------ claims
\* The data rows of the file that record url.
RowCount(u) ==
  LET rs == {r \in BagToSet(file.rows) : r.url = u}
  IN  BagCardinality([r \in rs |-> file.rows[r]])

\* The codes a generator has yielded, as a set.
Codes(seq) == {seq[k] : k \in 1..Len(seq)}

\* seq is in strictly increasing numeric order (so without repetition).
Increasing(seq) ==
  \A k \in 1..(Len(seq) - 1) : Value(seq[k]) < Value(seq[k + 1])

\* The generator being iterated has just ended.
ScanEnded(name) == pc = "tail" /\ gen.name = name

\* ceil(n / d)
CeilDiv(n, d) == (n + d - 1) \div d

\* C1 (as claimed): when main() has completed a run that started without an
\* output file, every identifier the generators emitted has exactly one data
\* row in the file, and no result is written twice.
C1_CompleteDuplicateFreeCover ==
  (pc = "done" /\ run = 1) =>
    \A i \in 1..Len(emitted) :
      \A code \in Codes(emitted[i]) : RowCount(code_to_url(code)) = 1

\* C2 (as claimed): when the process exits after an operator interrupt, every
\* result that had been appended to batch_results is in the output file.
C2_BufferFlushedBeforeExit ==
  pc = "stopped" =>
    \A k \in 1..Len(batch_results) :
      CopiesIn(Row(batch_results[k]), file.rows) >= 1

\* C3 (as claimed): a run started again after a stop never probes an
\* identifier whose result is already in the output file. (Within one run a
\* url's row is written only after its probe, so a url in flight that has a
\* row was persisted by the earlier run.)
C3_ResumeSkipsPersisted ==
  run > 1 => \A u \in running : RowCount(u) = 0

C5_From1000To3zzz ==
  ScanEnded("4-digit") =>
    /\ Len(emitted[gi]) = 3 * Base ^ 3
    /\ Increasing(emitted[gi])
    /\ \A code \in Codes(emitted[gi]) :
         Len(code) = LongLen /\ Head(code) \in {"1", "2", "3"}

\* C6: at most THREADS probes are in flight, in full batches, in final
\* batches and while an interrupted executor winds down.
C6_InFlightBounded == Cardinality(running) <= THREADS

\* Every worker of the pool is busy and work items still wait.
C6_Witness ==
  /\ pc = "pool"
  /\ THREADS > 1
  /\ Cardinality(running) = THREADS
  /\ pending # << >>

\* C7 (as claimed): batch_results never holds more than BATCH_SIZE results.
C7_BufferBounded == Len(batch_results) <= BATCH_SIZE

\* A scan whose save_results calls are all made: an earlier generator's, or
\* the last one's once main() has returned.
ScanComplete(i) == i < gi \/ (i = gi /\ pc = "done")

\* C8: while a scan runs, every BATCH_SIZE results accumulated have caused
\* exactly one flush, after which the buffer is empty; a completed scan of n
\* identifiers has caused exactly ceil(n / BATCH_SIZE) flushes (one more for a
\* final partial batch, such as one of BATCH_SIZE - 1).
C8_FlushCount ==
  /\ pc = "loop" => saves[gi] = Len(emitted[gi]) \div BATCH_SIZE
  /\ (pc = "loop" /\ batch_count > 0 /\ urls_batch = << >>) =>
       batch_results = << >>
  /\ \A i \in 1..Len(emitted) :
       ScanComplete(i) => saves[i] = CeilDiv(Len(emitted[i]), BATCH_SIZE)

\* A completed scan that ended on a partial batch of BATCH_SIZE - 1 results,
\* flushed once after its full batches.
C8_Witness ==
  \E i \in 1..Len(emitted) :
    /\ ScanComplete(i)
    /\ BATCH_SIZE > 1
    /\ Len(emitted[i]) % BATCH_SIZE = BATCH_SIZE - 1
    /\ saves[i] = (Len(emitted[i]) \div BATCH_SIZE) + 1

\* C9 (as claimed): a run stopped by the operator exits with a code other
\* than the exit code of a completed run.
C9_DistinctExitCodes == pc = "stopped" => exit_code # CompletedExitCode

\* C9 (amended): a run stopped by the operator and a completed run both exit
\* with code 0; only an uncaught sink error exits with another code.
C9_SameExitCode ==
  /\ pc \in {"stopped", "done"} => exit_code = 0
  /\ pc = "crashed" => exit_code # 0
  /\ pc \notin {"stopped", "done", "crashed"} => exit_code = -1

\* The process has exited after an interrupt that arrived mid-batch.
C9_Witness == pc = "stopped" /\ exit_code = 0 /\ batch_results # << >>

\* C10 (as claimed): every row of the file carries its identifier in the
\* code column, and its url column is BASE_URL followed by that identifier.
C10_RowCarriesIdentifier ==
  \A row \in BagToSet(file.rows) :
    /\ row.code # ""
    /\ row.url = code_to_url(row.code)

\* C11: a probe that ends in a transport error does not abort the run. When
\* main() has completed, every identifier the generators emitted has been
\* probed and has a row in the file, and every identifier whose probe raised
\* inside extract_metadata has a row with status ERROR and the error text.
C11_ProbeErrorRecorded ==
  pc = "done" =>
    \A i \in 1..Len(emitted) :
      \A code \in Codes(emitted[i]) :
        LET url == code_to_url(code)
        IN  /\ \E k \in 1..Len(probed) : probed[k] = url
            /\ RowCount(url) >= 1
            /\ Respond(remote, url) = "exc" =>
                 \E row \in BagToSet(file.rows) :
                   /\ row.url = url
                   /\ row.status = "ERROR"
                   /\ row.error # ""

\* A run completed although a probe of a full batch and a probe of the last
\* partial batch had raised.
C11_Witness ==
  /\ pc = "done"
  /\ saves[gi] > 1
  /\ \E k \in 1..Len(batch_results) : batch_results[k].status = "ERROR"
  /\ \E row \in BagToSet(file.rows) :
       /\ row.status = "ERROR"
       /\ row.url = code_to_url(emitted[gi][1])

\* A step in which main() leaves a save_results call that wrote nothing, and
\* not because the operator interrupted it: the call failed.
SinkFailed ==
  /\ pc \in {"save", "finalsave"}
  /\ file' = file
  /\ pc' \notin {pc, "handler"}

\* C12: a failed save_results call is fatal. The step that fails ends the
\* process in a failure state, neither completed nor stopped by the operator,
\* with an exit code other than theirs; in that state no probe is queued or
\* running and none can start.
C12_SinkErrorFatal ==
  /\ [](pc = "crashed" =>
          /\ pending = << >> /\ running = {} /\ finished = {}
          /\ ~ENABLED (WorkerStart \/ FinalStart \/ ForCode))
  /\ [][SinkFailed =>
          /\ pc' = "crashed"
          /\ exit_code' \notin {-1, CompletedExitCode, HandlerExitCode}
          /\ probed' = probed]_vars

\* A write failed after earlier batches had been written.
C12_Witness ==
  /\ pc = "crashed"
  /\ exit_code = 1
  /\ file.exists
  /\ batch_results # << >>
  /\ RowCount(batch_results[1].url) = 0

\* C13: starting from an absent OUTPUT_FILE, whatever save_results calls the
\* run makes, the file has exactly one header line and it is the first line.
\* The first call creates the file with the header; every later call leaves
\* the header lines alone and keeps every row written before.
C13_OneHeaderFirst ==
  /\ [](IF file.exists
        THEN file.headers = 1 /\ file.first = "header"
        ELSE file = NoFile)
  /\ [][file' # file =>
          /\ file'.exists
          /\ ~file.exists => file'.headers = 1 /\ file'.first = "header"
          /\ file.exists =>
               file'.headers = file.headers /\ file'.first = file.first
          /\ file.rows \sqsubseteq file'.rows
          /\ BagCardinality(file'.rows) =
               BagCardinality(file.rows) + Len(batch_results)]_vars

\* The file has been created by one call and appended to by a later one.
C13_Witness ==
  /\ file.exists
  /\ file.headers = 1
  /\ saves[gi] >= 2
  /\ BagCardinality(file.rows) >= 2 * BATCH_SIZE

\* C14: formatting a whole number of seconds as line 75 does and parsing the
\* text back with parse_duration gives the number again, for every duration
\* tried: 0 is written "?:??" and read as 0, and 3723 is written "62:03".
C14_DurationRoundTrip ==
  /\ dur.pc = "parsed" => dur.parsed = dur.n
  /\ dur.pc \in {"formatted", "parsed"} =>
       /\ dur.n = 0 => dur.text = "?:??"
       /\ dur.n = 3723 => dur.text = "62:03"
       /\ dur.n > 0 => Cardinality(ColonsIn(dur.text)) = 1

\* 3723 seconds have gone through both conversions.
C14_Witness ==
  /\ dur.pc = "parsed"
  /\ dur.n = 3723
  /\ dur.text = "62:03"
  /\ dur.parsed = 3723

\* C15 (as claimed): once the interrupt has been raised in the main thread
\* during a batch, no probe of that batch that had not started yet starts:
\* extract_metadata is entered by no further url.
C15_NoProbeStartsAfterInterrupt ==
  [][(pc \in {"unwind", "handler", "stopped"}) => (probed' = probed)]_vars

\* C16: batch_results and the file are changed by the main thread alone. A
\* step that writes the file is taken with no probe queued, running or
\* waiting to be collected; a step of a pool worker (a probe starts or
\* returns) changes neither batch_results nor the file nor total_found; and
\* while the main thread waits in the executor's __exit__ nothing changes them.
C16_ControllerOnly ==
  [][/\ (file' # file) =>
          (pending = << >> /\ running = {} /\ finished = {})
     /\ (pc \in {"pool", "unwind"} /\ running' # running) =>
          /\ batch_results' = batch_results
          /\ file' = file
          /\ total_found' = total_found
     /\ (pc = "unwind") => (batch_results' = batch_results /\ file' = file)]_vars

\* After a batch has been written, the workers of the next batch are all
\* busy while the main thread has collected part of it.
C16_Witness ==
  /\ pc = "pool"
  /\ file.exists
  /\ THREADS > 1
  /\ Cardinality(running) = THREADS
  /\ batch_results # << >>

\* The urls passed to extract_metadata in this run, as a set.
Probed == {probed[k] : k \in 1..Len(probed)}

\* C17: there is no retry within a run. No url is passed to extract_metadata
\* twice, and when main() has completed, the urls passed are exactly the urls
\* of the identifiers the generators emitted, each once, whatever the outcome
\* of its probe.
C17_ProbedExactlyOnce ==
  /\ Cardinality(Probed) = Len(probed)
  /\ pc = "done" =>
       /\ \A i \in 1..Len(emitted) :
            \A code \in Codes(emitted[i]) : code_to_url(code) \in Probed
       /\ \A u \in Probed :
            \E i \in 1..Len(emitted) : LastSegment(u) \in Codes(emitted[i])

\* A run over both lengths has completed; its probes ended in each of the
\* three outcomes.
C17_Witness ==
  /\ pc = "done"
  /\ Len(emitted) = 2
  /\ Len(probed) = Len(emitted[1]) + Len(emitted[2])
  /\ \A answer \in {"ok", "http", "exc"} :
       \E u \in Probed : Respond(remote, u) = answer

\* u is the url of an identifier of LongLen characters.
IsLong(u) == Len(u) = Len(BASE_URL) + LongLen

\* The n-th identifier the generators of this run have emitted, over all of
\* them in turn.
EmittedAt(n) ==
  IF n <= Len(emitted[1]) THEN emitted[1][n]
  ELSE emitted[2][n - Len(emitted[1])]

\* The newest url passed to extract_metadata is the run's first one of
\* LongLen characters.
FirstLongProbe ==
  /\ probed # << >>
  /\ IsLong(probed[Len(probed)])
  /\ Len(probed) = 1 \/ ~IsLong(probed[Len(probed) - 1])

\* C18: lengths go in ascending order with a drain between them. In a run
\* over both lengths, when the first 4-character identifier is passed to
\* extract_metadata, every 3-character identifier has been emitted and probed
\* and has its row in the file (rows are never removed afterwards). Urls
\* enter extract_metadata in the order in which the generators emitted their
\* identifiers, which within a length is ascending: the n-th url probed is
\* the url of the n-th identifier emitted (probed grows one url at a time, so
\* its newest url being in place in every state puts all of them in place).
C18_AscendingWithDrain ==
  /\ (INCLUDE_3DIGIT /\ FirstLongProbe) =>
       /\ Len(emitted[1]) = Base ^ ShortLen - 1
       /\ Increasing(emitted[1])
       /\ Len(probed) = Len(emitted[1]) + 1
       /\ \A code \in Codes(emitted[1]) :
            /\ code_to_url(code) \in Probed
            /\ RowCount(code_to_url(code)) >= 1
  /\ probed # << >> =>
       probed[Len(probed)] = code_to_url(EmittedAt(Len(probed)))
  /\ Len(emitted[gi]) >= 2 =>
       Value(emitted[gi][Len(emitted[gi]) - 1])
         < Value(emitted[gi][Len(emitted[gi])])

\* The first 4-character probe is in flight after a 3-character scan that
\* ended with a partial batch.
C18_Witness ==
  /\ INCLUDE_3DIGIT
  /\ FirstLongProbe
  /\ running = {probed[Len(probed)]}
  /\ Len(emitted[1]) % BATCH_SIZE # 0
  /\ BagCardinality(file.rows) = Len(emitted[1])

\* C19 (as claimed): when main() has completed, total_found is the number of
\* probed identifiers whose result has status 200, each counted once.
C19_FoundCountExact ==
  pc = "done" =>
    total_found =
      Cardinality({u \in Probed : extract_metadata(remote, u).status = "200"})

\* The results of probes that have returned (collected in batch_results or
\* not yet) and have no row in the file.
Unsaved ==
  {r \in finished \cup {batch_results[k] : k \in 1..Len(batch_results)} :
     CopiesIn(Row(r), file.rows) = 0}

\* C20: in every state of a run, at most BATCH_SIZE probes have returned a
\* result that is not in the file: a stop at any point, tidy or not, loses
\* the results of at most one batch. (Where the results held are no more
\* than BATCH_SIZE, the unsaved ones among them are not either.)
C20_LossBounded ==
  \/ Cardinality(finished) + Len(batch_results) <= BATCH_SIZE
  \/ Cardinality(Unsaved) <= BATCH_SIZE

\* A whole batch of more than one result is about to be written, after an
\* earlier batch.
C20_Witness ==
  /\ pc = "save"
  /\ file.exists
  /\ BATCH_SIZE > 1
  /\ Cardinality(Unsaved) = BATCH_SIZE

====
